---- MODULE Spec2Model ----
(***************************************************************************)
(* Task lifecycle and tenant scoping of the maintainly backend.            *)
(*                                                                         *)
(* The store (users, assets, tasks, issues) is the state.  Handlers that   *)
(* do a single storage call (findOneAndUpdate, one save of a new document) *)
(* are one action.  startTask, submitForVerification and verifyTask load a *)
(* document with findOne, check and modify it in memory and write it back  *)
(* with save(): the handler up to its call of save() is one step and the   *)
(* save is another, so that other requests interleave between the two.     *)
(* Read-only handlers are operators over the store.                        *)
(*                                                                         *)
(* Identifiers are small naturals; NoId stands for a null or missing       *)
(* reference, 0 for an unset date and "" for an unset string.              *)
(***************************************************************************)
EXTENDS Integers, Sequences, FiniteSets, TLC

VARIABLES users, tasks, issues, slots, now, nreq, last, verdict, storage, supabase,
          converts

vars == <<users, tasks, issues, slots, now, nreq, last, verdict, storage, supabase, converts>>

(* ---------------------------- bounds ----------------------------------- *)
MaxTasks == 1
MaxTime == 2
MaxInFlight == 2
MaxRequests == 3

(* ---------------------------- values ----------------------------------- *)
NoId == 0
\* a filter key that is not part of the query
Absent == 0 - 2
\* a filter key whose value is the JavaScript value undefined
Undefined == 0 - 1

Statuses == {"Pending", "InProgress", "PendingVerification", "Completed", "RequiresAttention"}

UserIds == 1 .. 6
\* an id that resolves to no stored user
GhostUser == Cardinality(UserIds) + 1

\* Users as seeded / registered: two admins, two managers employed by admin 1,
\* one manager employed by admin 2, and a deactivated manager of admin 1.
\* A user's email is the number of its address; passwords are not compared.
SeedUsers ==
  [u \in UserIds |->
     [role |-> IF u \in {1, 2} THEN "Admin" ELSE "Manager",
      adminId |-> IF u \in {1, 2} THEN NoId ELSE IF u = 5 THEN 2 ELSE 1,
      isActive |-> u # 6,
      email |-> u,
      password |-> "initial"]]

\* The same store with a manager record that carries no adminId.
LegacyUsers == [SeedUsers EXCEPT ![4].adminId = NoId]

AssetIds == 1 .. 3
\* an id that resolves to no stored asset
GhostAsset == Cardinality(AssetIds) + 1

Assets ==
  [a \in AssetIds |->
     IF a = 1 THEN [adminId |-> 1, societyId |-> 1, isActive |-> TRUE]
     ELSE IF a = 2 THEN [adminId |-> 2, societyId |-> 2, isActive |-> TRUE]
     ELSE [adminId |-> 1, societyId |-> 1, isActive |-> FALSE]]


\* A URL is the sequence of its pieces, so that String.includes can be computed.
NoUrl == <<>>
TrustedUrl == <<"https://", "proj.", "supabase.co", "/storage/v1/object/public/", "task-photos/p.jpg">>
ForeignUrl == <<"https://", "evil.example", "/p.jpg">>
SpoofUrl == <<"https://", "evil.example", "/?x=", "supabase.co", "/storage/v1/object/public/", "p.jpg">>

TaskIds == DOMAIN tasks
\* task ids a request may name: the stored ones and one that does not exist
TaskRefs == 1 .. (Len(tasks) + 1)
Slots == 1 .. MaxInFlight

(* ------------------- authentication and role gate ---------------------- *)
\* req.user as attached by authMiddleware; only active users authenticate
Principals == {u \in DOMAIN users : users[u].isActive}

authorize(allowedRoles, u) == users[u].role \in allowedRoles

requireResourceOwnership(u) ==
  IF users[u].role = "Admin" THEN u
  ELSE IF users[u].role = "Manager"
       THEN (IF users[u].adminId = NoId THEN Undefined ELSE users[u].adminId)
       ELSE NoId

\* routes of /api/tasks whose middleware chain contains requireResourceOwnership
OwnershipRoutes == {"getTasks", "getTaskById", "updateTask", "deleteTask", "verifyTask", "getDashboardStats"}

\* req.resourceAdminId as the handler of a route sees it
resourceAdminId(route, u) ==
  IF route \in OwnershipRoutes THEN requireResourceOwnership(u) ELSE Undefined

(* --------------------------- query filters ----------------------------- *)
\* A key with value undefined is sent to the store as null and so matches
\* only a null or missing field.
FieldMatches(v, f) ==
  \/ f = Absent
  \/ IF f = Undefined THEN v = NoId ELSE v = f

TaskMatches(t, filter) ==
  /\ t \in TaskIds
  /\ tasks[t].isActive
  /\ FieldMatches(tasks[t].adminId, filter.adminId)
  /\ FieldMatches(tasks[t].assignedManagerId, filter.assignedManagerId)

(* --------------------------- responses --------------------------------- *)
\* status code, message and, for "Current status: ..." messages, the status cited
Resp(code, msg, cites) == [code |-> code, msg |-> msg, cites |-> cites]

\* request body; a key that the request does not carry is Absent or ""
NoBody ==
  [assetId |-> Absent, assignedManagerId |-> Absent, adminId |-> Absent, status |-> "",
   photoUrl |-> NoUrl, completionNotes |-> "", action |-> "", verificationNotes |-> "",
   rejectionReason |-> ""]

\* the asset and manager a creation or conversion request names
Creations == {"createTask", "convertToTask"}

NoRequest ==
  [op |-> "", user |-> NoId, task |-> NoId, assetId |-> Absent,
   assignedManagerId |-> Absent, action |-> "",
   saw |-> "", code |-> 0, msg |-> "", cites |-> "", data |-> <<>>]

\* the record of an answered request: who asked what, the stored status of
\* the task when the handler read it, and the answer
Response(op, u, t, body, saw, r) ==
  [op |-> op, user |-> u, task |-> t, assetId |-> IF op \in Creations THEN body.assetId ELSE Absent,
   assignedManagerId |-> IF op \in Creations THEN body.assignedManagerId ELSE Absent,
   action |-> body.action,
   saw |-> saw, code |-> r.code, msg |-> r.msg, cites |-> r.cites, data |-> <<>>]

statusOf(t) == IF t \in TaskIds THEN tasks[t].status ELSE ""

(* ------------------------ read-only handlers --------------------------- *)
\* the role filter without the manager's assignment key
roleFilterOfTenant(u) ==
  [adminId |-> IF users[u].role = "Admin" THEN u ELSE users[u].adminId,
   assignedManagerId |-> Absent]

\* filter built by getTasks, getTaskById and getDashboardStats
roleFilter(u) ==
  IF users[u].role = "Admin"
  THEN [adminId |-> u, assignedManagerId |-> Absent]
  ELSE [adminId |-> IF users[u].adminId # NoId THEN users[u].adminId ELSE Absent,
        assignedManagerId |-> u]

\* ids of the tasks GET /api/tasks returns to u (no query filters, one page)
getTasks(u) == {t \in TaskIds : TaskMatches(t, roleFilter(u))}

Priorities == {"Low", "Medium", "High", "Critical"}

\* priority is stored as a String: the store compares the values as strings,
\* and the four values differ in their first character already
charCode(str) ==
  IF str = "Critical" THEN 67 ELSE IF str = "High" THEN 72
  ELSE IF str = "Low" THEN 76 ELSE 77

\* document a sorts strictly before b under sort({scheduledDate: 1, priority: -1})
sortsBefore(a, b) ==
  \/ a.scheduledDate < b.scheduledDate
  \/ a.scheduledDate = b.scheduledDate /\ charCode(a.priority) > charCode(b.priority)

\* the orders in which find(filter).sort(...) may return the tasks of u
\* (documents with equal keys come in any order); one page holds them all
getTasksSorted(u) ==
  LET found == getTasks(u)
      n == Cardinality(found)
  IN {page \in [1 .. n -> found] :
        /\ \A i, j \in 1 .. n : i # j => page[i] # page[j]
        /\ \A i, j \in 1 .. n : i < j => ~sortsBefore(tasks[page[j]], tasks[page[i]])}

\* GET /api/tasks
listTasks(u) ==
  /\ nreq < MaxRequests
  /\ u \in Principals
  /\ \E page \in getTasksSorted(u) :
        last' = [Response("getTasks", u, NoId, NoBody, "", Resp(200, "success", ""))
                   EXCEPT !.data = page]
  /\ nreq' = nreq + 1
  /\ UNCHANGED <<converts, storage, supabase, users, tasks, issues, slots, now, verdict>>

getTaskById(u, t) ==
  IF TaskMatches(t, roleFilter(u))
  THEN Resp(200, "success", "")
  ELSE Resp(404, "Task not found", "")

\* ids of the assets GET /api/assets returns to u
getAssets(u) ==
  LET f == IF users[u].role = "Admin" THEN u
           ELSE IF users[u].adminId # NoId THEN users[u].adminId ELSE Absent
  IN {a \in AssetIds : Assets[a].isActive /\ FieldMatches(Assets[a].adminId, f)}

\* filter of the handlers that let a manager act on an assigned task
startFilter(u) ==
  IF users[u].role = "Manager"
  THEN [adminId |-> resourceAdminId("startTask", u), assignedManagerId |-> u]
  ELSE [adminId |-> resourceAdminId("startTask", u), assignedManagerId |-> Absent]

\* the submit filter as it would be with the admin's own id as tenant scope
submitFilterOfOwner(u) ==
  IF users[u].role = "Manager"
  THEN [adminId |-> Absent, assignedManagerId |-> u]
  ELSE [adminId |-> u, assignedManagerId |-> Absent]

submitFilter(u) ==
  IF users[u].role = "Manager"
  THEN [adminId |-> Absent, assignedManagerId |-> u]
  ELSE [adminId |-> resourceAdminId("submitForVerification", u), assignedManagerId |-> Absent]

uploadFilter(u) ==
  IF users[u].role = "Manager"
  THEN [adminId |-> Absent, assignedManagerId |-> u]
  ELSE [adminId |-> resourceAdminId("uploadTaskPhoto", u), assignedManagerId |-> Absent]

\* POST /api/tasks/:id/upload-photo with an image file attached
uploadTaskPhoto(u, t) ==
  IF TaskMatches(t, uploadFilter(u))
  THEN Resp(200, "Photo uploaded successfully", "")
  ELSE Resp(404, "Task not found or not assigned to you", "")

(* --------------------------- task creation ----------------------------- *)
\* the asset lookup without the tenant key
findAssetAnyAdmin(u, a) ==
  a \in AssetIds /\ Assets[a].isActive

\* Asset.findOne({_id, adminId: req.user.id, isActive: true})
findAssetOfAdmin(u, a) ==
  a \in AssetIds /\ Assets[a].adminId = u /\ Assets[a].isActive

\* User.findOne({_id, role: 'Manager', adminId: req.user.id, isActive: true})
findManagerOfAdmin(u, m) ==
  /\ m \in DOMAIN users
  /\ users[m].role = "Manager"
  /\ users[m].adminId = u
  /\ users[m].isActive

\* a document as the Task schema creates it
NewTask(adminId, assetId, managerId, issueId) ==
  [adminId |-> adminId, assetId |-> assetId, assignedManagerId |-> managerId, status |-> "Pending",
   actualStartTime |-> 0, actualEndTime |-> 0, verificationPhotoUrl |-> NoUrl,
   completionNotes |-> "", verificationNotes |-> "", rejectionReason |-> "",
   verifiedBy |-> NoId, verifiedAt |-> 0, isActive |-> TRUE, issueId |-> issueId,
   priority |-> "Medium", scheduledDate |-> 1]

createTaskResult(u, body) ==
  IF ~authorize({"Admin"}, u) THEN Resp(403, "Access denied", "")
  ELSE IF ~findAssetOfAdmin(u, body.assetId)
       THEN Resp(400, "Invalid asset ID or asset not found", "")
  ELSE IF ~findManagerOfAdmin(u, body.assignedManagerId)
       THEN Resp(400, "Invalid manager ID or manager not found", "")
  ELSE Resp(201, "Task created successfully", "")

\* taskSchema.pre('save'): fill in the actual times when the status was modified
preSave(doc, statusModified, time) ==
  IF ~statusModified THEN doc
  ELSE [doc EXCEPT
          !.actualStartTime = IF doc.status = "InProgress" /\ @ = 0 THEN time ELSE @,
          !.actualEndTime = IF doc.status = "PendingVerification" /\ @ = 0 THEN time ELSE @]

\* the body is spread into the new document, so it may carry a status
CreateBodies ==
  {[NoBody EXCEPT !.assetId = a, !.assignedManagerId = m] :
     a \in AssetIds \cup {GhostAsset}, m \in {3, 5, 6, GhostUser}}
  \cup {[NoBody EXCEPT !.assetId = 1, !.assignedManagerId = 3, !.status = s] :
          s \in {"InProgress", "PendingVerification"}}

\* new Task({...req.body, adminId: req.user.id, ...}) followed by save()
createdTask(u, body, time) ==
  LET doc == [NewTask(u, body.assetId, body.assignedManagerId, NoId) EXCEPT
                !.status = IF body.status # "" THEN body.status ELSE @]
  IN preSave(doc, TRUE, time)

createTask(u, body) ==
  LET r == createTaskResult(u, body) IN
  /\ nreq < MaxRequests
  /\ u \in Principals
  /\ r.code = 201 => Len(tasks) < MaxTasks
  /\ IF r.code = 201
     THEN /\ tasks' = Append(tasks, createdTask(u, body, now))
          /\ verdict' = Append(verdict, "none")
     ELSE UNCHANGED <<tasks, verdict>>
  /\ nreq' = nreq + 1
  /\ last' = Response("createTask", u,
                      IF r.code = 201 THEN Len(tasks) + 1 ELSE NoId, body, "", r)
  /\ UNCHANGED <<converts, storage, supabase, users, issues, slots, now>>

(* ----------------------- general edit and delete ----------------------- *)
\* the update document: req.body without assignedManagerId, plus the
\* validated assignedManagerId
applyUpdate(task, body) ==
  [task EXCEPT
     !.assignedManagerId = IF body.assignedManagerId # Absent THEN body.assignedManagerId ELSE @,
     !.status = IF body.status # "" THEN body.status ELSE @,
     !.adminId = IF body.adminId # Absent THEN body.adminId ELSE @]

updateTaskResult(u, t, body) ==
  IF ~authorize({"Admin"}, u) THEN Resp(403, "Access denied", "")
  ELSE IF body.assignedManagerId # Absent /\ ~findManagerOfAdmin(u, body.assignedManagerId)
       THEN Resp(400, "Invalid manager ID or manager not found", "")
  ELSE IF ~TaskMatches(t, [adminId |-> resourceAdminId("updateTask", u), assignedManagerId |-> Absent])
       THEN Resp(404, "Task not found", "")
  ELSE Resp(200, "Task updated successfully", "")

UpdateBodies ==
  {NoBody}
  \cup {[NoBody EXCEPT !.assignedManagerId = m] : m \in {3, 4, 5}}
  \cup {[NoBody EXCEPT !.status = s] : s \in Statuses}
  \cup {[NoBody EXCEPT !.adminId = a] : a \in {1, 2}}

updateTask(u, t, body) ==
  LET r == updateTaskResult(u, t, body) IN
  /\ nreq < MaxRequests
  /\ u \in Principals
  /\ tasks' = IF r.code = 200 THEN [tasks EXCEPT ![t] = applyUpdate(@, body)] ELSE tasks
  /\ nreq' = nreq + 1
  /\ last' = Response("updateTask", u, t, body, statusOf(t), r)
  /\ UNCHANGED <<converts, storage, supabase, users, issues, slots, now, verdict>>

\* a delete that would be allowed on tasks not yet started only
deleteTaskPendingOnly(u, t) ==
  IF ~authorize({"Admin"}, u) THEN Resp(403, "Access denied", "")
  ELSE IF ~TaskMatches(t, [adminId |-> resourceAdminId("deleteTask", u), assignedManagerId |-> Absent])
       THEN Resp(404, "Task not found", "")
  ELSE IF tasks[t].status # "Pending"
       THEN Resp(400, "Cannot delete task", tasks[t].status)
  ELSE Resp(200, "Task deleted successfully", "")

deleteTaskResult(u, t) ==
  IF ~authorize({"Admin"}, u) THEN Resp(403, "Access denied", "")
  ELSE IF ~TaskMatches(t, [adminId |-> resourceAdminId("deleteTask", u), assignedManagerId |-> Absent])
       THEN Resp(404, "Task not found", "")
  ELSE Resp(200, "Task deleted successfully", "")

deleteTask(u, t) ==
  LET r == deleteTaskResult(u, t) IN
  /\ nreq < MaxRequests
  /\ u \in Principals
  /\ tasks' = IF r.code = 200 THEN [tasks EXCEPT ![t].isActive = FALSE] ELSE tasks
  /\ nreq' = nreq + 1
  /\ last' = Response("deleteTask", u, t, NoBody, statusOf(t), r)
  /\ UNCHANGED <<converts, storage, supabase, users, issues, slots, now, verdict>>

(* ------------- load / check / save handlers: request slots ------------- *)
\* the paths a handler assigned on the loaded document; dirty names the ones
\* whose value differs from the loaded one, which save() writes with $set
NoUpd ==
  [dirty |-> {}, status |-> "", actualStartTime |-> 0, actualEndTime |-> 0,
   verificationPhotoUrl |-> NoUrl, completionNotes |-> "", verificationNotes |-> "",
   rejectionReason |-> "", verifiedBy |-> NoId, verifiedAt |-> 0]

IdleSlot ==
  [pc |-> "idle", op |-> "", user |-> NoId, task |-> NoId, action |-> "",
   saw |-> "", upd |-> NoUpd]


SubmitBodies ==
  {[NoBody EXCEPT !.photoUrl = p, !.completionNotes = "done"] :
     p \in {TrustedUrl, ForeignUrl, SpoofUrl}}

VerifyBodies ==
  {[NoBody EXCEPT !.action = "approve", !.verificationNotes = "ok"],
   [NoBody EXCEPT !.action = "reject", !.rejectionReason = "blurry photo", !.verificationNotes = "redo"],
   [NoBody EXCEPT !.action = "reject", !.rejectionReason = "dim"],
   [NoBody EXCEPT !.action = "reject"]}

\* the handler answers at once
answer(op, u, t, body, resp) ==
  /\ last' = Response(op, u, t, body, statusOf(t), resp)
  /\ UNCHANGED slots

\* the handler has modified its document and calls save(): the request
\* occupies the first free slot until the save is done
load(op, u, t, body, upd) ==
  LET r == CHOOSE x \in Slots : slots[x].pc = "idle" /\ \A y \in Slots : y < x => slots[y].pc # "idle"
  IN
  /\ slots' = [slots EXCEPT ![r] =
                 [pc |-> "loaded", op |-> op, user |-> u, task |-> t,
                  action |-> body.action, saw |-> statusOf(t), upd |-> upd]]
  /\ UNCHANGED last

FreeSlot == \E x \in Slots : slots[x].pc = "idle"

Dirty(task, upd, fields) == {f \in fields : upd[f] # task[f]}

startTaskResult(u, t) ==
  IF ~TaskMatches(t, startFilter(u))
  THEN Resp(404, "Task not found or not assigned to you", "")
  ELSE IF tasks[t].status # "Pending"
       THEN Resp(400, "Cannot start task", tasks[t].status)
  ELSE Resp(200, "Task started successfully", "")

startTask(u, t) ==
  LET res == startTaskResult(u, t)
      upd == [NoUpd EXCEPT !.status = "InProgress", !.actualStartTime = now]
  IN
  /\ nreq < MaxRequests
  /\ u \in Principals
  /\ IF res.code = 200
     THEN /\ FreeSlot
          /\ load("startTask", u, t, NoBody,
                  [upd EXCEPT !.dirty = Dirty(tasks[t], upd, {"status", "actualStartTime"})])
     ELSE answer("startTask", u, t, NoBody, res)
  /\ nreq' = nreq + 1
  /\ UNCHANGED <<converts, storage, supabase, users, tasks, issues, now, verdict>>

\* photoUrl.includes('supabase.co/storage/v1/object/public/')
includesStoragePath(url) ==
  \E i \in 1 .. (Len(url) - 1) :
     url[i] = "supabase.co" /\ url[i + 1] = "/storage/v1/object/public/"

submitForVerificationResult(u, t, body) ==
  IF ~TaskMatches(t, submitFilter(u))
  THEN Resp(404, "Task not found or not assigned to you", "")
  ELSE IF tasks[t].status # "InProgress"
       THEN Resp(400, "Cannot submit for verification", tasks[t].status)
  ELSE IF ~includesStoragePath(body.photoUrl)
       THEN Resp(400, "Invalid photo URL", "")
  ELSE Resp(200, "Task submitted for verification successfully", "")

submitForVerification(u, t, body) ==
  LET res == submitForVerificationResult(u, t, body)
      upd == [NoUpd EXCEPT !.status = "PendingVerification",
                           !.verificationPhotoUrl = body.photoUrl,
                           !.completionNotes = body.completionNotes,
                           !.actualEndTime = now]
  IN
  /\ nreq < MaxRequests
  /\ u \in Principals
  /\ IF res.code = 200
     THEN /\ FreeSlot
          /\ load("submitForVerification", u, t, body,
                  [upd EXCEPT !.dirty =
                     Dirty(tasks[t], upd, {"status", "verificationPhotoUrl",
                                           "completionNotes", "actualEndTime"})])
     ELSE answer("submitForVerification", u, t, body, res)
  /\ nreq' = nreq + 1
  /\ UNCHANGED <<converts, storage, supabase, users, tasks, issues, now, verdict>>

\* length of the request strings the model uses
StrLen(s) == IF s = "" THEN 0 ELSE IF s = "dim" THEN 3 ELSE 12

\* the validators with a reason check that asks only for a non-empty reason
verifyBodyNonEmpty(body) ==
  /\ body.action \in {"approve", "reject"}
  /\ body.action = "reject" => body.rejectionReason # ""

\* validators of POST /:id/verify
verifyBodyValid(body) ==
  /\ body.action \in {"approve", "reject"}
  /\ body.action = "reject" =>
       (StrLen(body.rejectionReason) >= 5 /\ StrLen(body.rejectionReason) <= 500)

verifyTaskResult(u, t, body) ==
  IF ~authorize({"Admin"}, u) THEN Resp(403, "Access denied", "")
  ELSE IF ~verifyBodyValid(body) THEN Resp(400, "Validation failed", "")
  ELSE IF ~TaskMatches(t, [adminId |-> u, assignedManagerId |-> Absent])
       THEN Resp(404, "Task not found", "")
  ELSE IF tasks[t].status # "PendingVerification"
       THEN Resp(400, "Cannot verify task", tasks[t].status)
  ELSE Resp(200, "Task verified successfully", "")

verifyTask(u, t, body) ==
  LET res == verifyTaskResult(u, t, body)
      upd == IF body.action = "approve"
             THEN [NoUpd EXCEPT !.status = "Completed",
                                !.verificationNotes = body.verificationNotes,
                                !.verifiedBy = u, !.verifiedAt = now]
             ELSE [NoUpd EXCEPT !.status = "RequiresAttention",
                                !.rejectionReason = body.rejectionReason,
                                !.verificationNotes = body.verificationNotes,
                                !.verifiedBy = u, !.verifiedAt = now]
      assigned == IF body.action = "approve"
                  THEN {"status", "verificationNotes", "verifiedBy", "verifiedAt"}
                  ELSE {"status", "rejectionReason", "verificationNotes", "verifiedBy", "verifiedAt"}
  IN
  /\ nreq < MaxRequests
  /\ u \in Principals
  /\ IF res.code = 200
     THEN /\ FreeSlot
          /\ load("verifyTask", u, t, body, [upd EXCEPT !.dirty = Dirty(tasks[t], upd, assigned)])
     ELSE answer("verifyTask", u, t, body, res)
  /\ nreq' = nreq + 1
  /\ UNCHANGED <<converts, storage, supabase, users, tasks, issues, now, verdict>>

\* task.save() of a loaded document: $set of the modified paths on the stored
\* document with that _id, whatever its state is by now
saveDocument(task, upd) ==
  [f \in DOMAIN task |-> IF f \in upd.dirty THEN upd[f] ELSE task[f]]

save(r) ==
  LET t == slots[r].task
      op == slots[r].op
      saved == preSave(slots[r].upd, "status" \in slots[r].upd.dirty, now)
      hooked == [saved EXCEPT !.dirty =
                   @ \cup {f \in {"actualStartTime", "actualEndTime"} : saved[f] # slots[r].upd[f]}]
      msg == IF op = "startTask" THEN "Task started successfully"
             ELSE IF op = "submitForVerification" THEN "Task submitted for verification successfully"
             ELSE "Task verified successfully"
  IN
  /\ slots[r].pc = "loaded"
  /\ tasks' = [tasks EXCEPT ![t] = saveDocument(@, hooked)]
  /\ verdict' = IF op = "verifyTask"
                THEN [verdict EXCEPT ![t] = slots[r].action]
                ELSE verdict
  /\ last' = Response(op, slots[r].user, t, [NoBody EXCEPT !.action = slots[r].action],
                      slots[r].saw, Resp(200, msg, ""))
  /\ slots' = [slots EXCEPT ![r] = IdleSlot]
  /\ UNCHANGED <<converts, storage, supabase, users, issues, now, nreq>>

(* ------------------------------ issues --------------------------------- *)
reviewIssueResult(u, i, status) ==
  IF ~authorize({"Admin"}, u) THEN Resp(403, "Access denied", "")
  ELSE IF status \notin {"Approved", "Rejected"} THEN Resp(400, "Invalid status", "")
  ELSE IF i \notin DOMAIN issues THEN Resp(404, "Issue not found", "")
  ELSE IF issues[i].status \in {"Approved", "Rejected", "ConvertedToTask"}
       THEN Resp(400, "Issue has already been reviewed", "")
  ELSE Resp(200, "Issue reviewed successfully", "")

reviewIssue(u, i, status) ==
  LET r == reviewIssueResult(u, i, status) IN
  /\ nreq < MaxRequests
  /\ u \in Principals
  /\ issues' = IF r.code = 200 THEN [issues EXCEPT ![i].status = status] ELSE issues
  /\ nreq' = nreq + 1
  /\ last' = Response("reviewIssue", u, NoId, NoBody, "", r)
  /\ UNCHANGED <<converts, storage, supabase, users, tasks, slots, now, verdict>>

convertToTaskResult(u, i, body) ==
  IF ~authorize({"Admin"}, u) THEN Resp(403, "Access denied", "")
  ELSE IF i \notin DOMAIN issues THEN Resp(404, "Issue not found", "")
  ELSE IF issues[i].status # "Approved"
       THEN Resp(400, "Only approved issues can be converted to tasks", "")
  ELSE IF body.assetId \notin AssetIds \/ Assets[body.assetId].societyId # issues[i].societyId
       THEN Resp(400, "Invalid asset for this society", "")
  ELSE IF body.assignedManagerId \notin DOMAIN users \/ users[body.assignedManagerId].role # "Manager"
       THEN Resp(400, "Invalid manager", "")
  ELSE Resp(200, "Issue converted to task successfully", "")

ConvertBodies ==
  {[NoBody EXCEPT !.assetId = a, !.assignedManagerId = m] :
     a \in {1, 2, GhostAsset}, m \in {1, 3, 5, GhostUser}}

convertToTask(u, i, body) ==
  LET r == convertToTaskResult(u, i, body) IN
  /\ nreq < MaxRequests
  /\ u \in Principals
  /\ r.code = 200 => Len(tasks) < MaxTasks
  /\ IF r.code = 200
     THEN /\ tasks' = Append(tasks, preSave(NewTask(u, body.assetId, body.assignedManagerId, i), TRUE, now))
          /\ verdict' = Append(verdict, "none")
          /\ issues' = [issues EXCEPT ![i].status = "ConvertedToTask",
                                      ![i].taskId = Len(tasks) + 1]
     ELSE UNCHANGED <<tasks, verdict, issues>>
  /\ nreq' = nreq + 1
  /\ last' = Response("convertToTask", u,
                      IF r.code = 200 THEN Len(tasks) + 1 ELSE NoId, body, "", r)
  /\ UNCHANGED <<converts, storage, supabase, users, slots, now>>

\* A conversion between its awaits: the handler has read and checked the
\* issue ("checked"), then has saved the new task ("created"), and last
\* saves the issue.
MaxConverted == 2

NoConvert ==
  [pc |-> "idle", user |-> NoId, issue |-> NoId, assetId |-> Absent,
   assignedManagerId |-> Absent, taskId |-> NoId]

\* Issue.findById and the checks on the loaded issue, the asset and the manager
convertFind(u, i, body) ==
  LET r == convertToTaskResult(u, i, body)
      c == CHOOSE x \in Slots : converts[x].pc = "idle"
  IN
  /\ nreq < MaxRequests
  /\ u \in Principals
  /\ IF r.code = 200
     THEN /\ \E x \in Slots : converts[x].pc = "idle"
          /\ converts' = [converts EXCEPT ![c] =
                            [pc |-> "checked", user |-> u, issue |-> i,
                             assetId |-> body.assetId,
                             assignedManagerId |-> body.assignedManagerId,
                             taskId |-> NoId]]
          /\ UNCHANGED last
     ELSE /\ last' = Response("convertToTask", u, NoId, body, "", r)
          /\ UNCHANGED converts
  /\ nreq' = nreq + 1
  /\ UNCHANGED <<storage, supabase, users, tasks, issues, slots, now, verdict>>

\* new Task(taskData).save()
convertSaveTask(c) ==
  /\ converts[c].pc = "checked"
  /\ Len(tasks) < MaxConverted
  /\ tasks' = Append(tasks, preSave(NewTask(converts[c].user, converts[c].assetId,
                                            converts[c].assignedManagerId, converts[c].issue),
                                    TRUE, now))
  /\ verdict' = Append(verdict, "none")
  /\ converts' = [converts EXCEPT ![c].pc = "created", ![c].taskId = Len(tasks) + 1]
  /\ UNCHANGED <<storage, supabase, users, issues, slots, now, nreq, last>>

\* issue.status = 'ConvertedToTask', issue.convertedTask = {...}, issue.save()
convertSaveIssue(c) ==
  /\ converts[c].pc = "created"
  /\ issues' = [issues EXCEPT ![converts[c].issue].status = "ConvertedToTask",
                              ![converts[c].issue].taskId = converts[c].taskId]
  /\ last' = Response("convertToTask", converts[c].user, converts[c].taskId,
                      [NoBody EXCEPT !.assetId = converts[c].assetId,
                                     !.assignedManagerId = converts[c].assignedManagerId],
                      "", Resp(200, "Issue converted to task successfully", ""))
  /\ converts' = [converts EXCEPT ![c] = NoConvert]
  /\ UNCHANGED <<storage, supabase, users, tasks, slots, now, nreq, verdict>>

(* ------------------------------- time ---------------------------------- *)
\* the dates that are stored or about to be stored
UsedTimes ==
  UNION {{tasks[t].actualStartTime, tasks[t].actualEndTime, tasks[t].verifiedAt} : t \in TaskIds}
  \cup UNION {{slots[r].upd.actualStartTime, slots[r].upd.actualEndTime, slots[r].upd.verifiedAt} :
                r \in Slots}

\* the clock that new Date() reads moves on; it is followed only from the
\* first reading of a value on, as unread values are indistinguishable
Tick ==
  /\ now < MaxTime
  /\ now \in UsedTimes
  /\ now' = now + 1
  /\ UNCHANGED <<converts, storage, supabase, users, tasks, issues, slots, nreq, last, verdict>>

(* --------------------------- photo storage ----------------------------- *)
\* limits.fileSize of the multer instance
MaxFileSize == 10 * 1024 * 1024

ImageExtensions == {"jpg", "jpeg", "png", "gif", "webp", "bmp"}

\* the i flag of the extension test, on the name pieces the model uses
lower(piece) ==
  IF piece = "PNG" THEN "png" ELSE IF piece = "JPeg" THEN "jpeg" ELSE piece

\* a multipart file part: mimetype and originalname in pieces, size in bytes
MimeTypes == {<<"image/", "png">>, <<"application/", "pdf">>, <<"text/", "image/">>}
FileNames == {<<"photo", ".", "PNG">>, <<"report", ".", "pdf">>, <<"png">>}
FileSizes == {1, MaxFileSize, MaxFileSize + 1}

\* the request carries no part named photo
NoFile == [mimetype |-> <<>>, originalname |-> <<>>, size |-> 0]

Files ==
  {[mimetype |-> m, originalname |-> n, size |-> z] :
     m \in MimeTypes, n \in FileNames, z \in FileSizes}

\* a file is passed on when the filter calls cb(null, true)
fileFilter(file) ==
  LET name == file.originalname
      isImageMimeType == Len(file.mimetype) > 0 /\ file.mimetype[1] = "image/"
      hasImageExtension ==
        /\ Len(name) >= 2
        /\ name[Len(name) - 1] = "."
        /\ lower(name[Len(name)]) \in ImageExtensions
  IN isImageMimeType \/ hasImageExtension

\* an error object as the error middleware inspects it
NoError == [name |-> "", code |-> "", type |-> "", statusCode |-> 0, message |-> ""]

Error(message) == [NoError EXCEPT !.name = "Error", !.message = message]

\* upload.single('photo'): the error multer passes to next(), if any; the
\* filter sees the part's headers before any byte of it is counted
uploadSingle(file) ==
  IF file = NoFile THEN NoError
  ELSE IF ~fileFilter(file) THEN Error("Only image files are allowed")
  ELSE IF file.size > MaxFileSize
       THEN [NoError EXCEPT !.name = "MulterError", !.code = "LIMIT_FILE_SIZE",
                            !.message = "File too large"]
  ELSE NoError

\* the response of the global error middleware (NODE_ENV not production;
\* in production a 500 carries 'Something went wrong' instead)
errorHandler(err) ==
  LET s0 == Resp(500, "Internal server error occurred", "")
      s1 == IF err.name = "ValidationError" THEN Resp(400, "Validation failed", "") ELSE s0
      s2 == IF err.code = "11000" THEN Resp(409, "already exists", "") ELSE s1
      s3 == IF err.name = "CastError" THEN Resp(400, "Invalid ID format", "") ELSE s2
      s4 == IF err.name = "JsonWebTokenError" THEN Resp(401, "Invalid token", "") ELSE s3
      s5 == IF err.name = "TokenExpiredError" THEN Resp(401, "Token expired", "") ELSE s4
      s6 == IF err.type = "validation" THEN Resp(400, "Validation failed", "") ELSE s5
  IN IF err.statusCode # 0 THEN Resp(err.statusCode, err.message, "") ELSE s6

isConfigured == supabase

\* the object path the handler and the service build for an upload
filePath(u, t) == [task |-> t, user |-> u, time |-> now]

\* SupabaseStorageService.uploadTaskPhoto: the error it throws, if any;
\* upsert is false, so a path that exists already is an error of the store
serviceUploadTaskPhoto(u, t, reachable) ==
  IF ~supabase THEN Error("Supabase not initialized. Check your configuration.")
  ELSE IF ~reachable \/ filePath(u, t) \in storage THEN Error("Failed to upload file")
  ELSE NoError

\* SupabaseStorageService.generateSignedUploadUrl: the error it throws, if any
generateSignedUploadUrl(reachable) ==
  IF ~supabase THEN Error("Supabase not initialized. Check your configuration.")
  ELSE IF ~reachable THEN Error("Failed to generate upload URL")
  ELSE NoError

uploadPhotoResult(u, t, file, reachable) ==
  IF uploadSingle(file) # NoError THEN errorHandler(uploadSingle(file))
  ELSE IF uploadTaskPhoto(u, t).code # 200 THEN uploadTaskPhoto(u, t)
  ELSE IF file = NoFile THEN Resp(400, "No photo file provided", "")
  ELSE IF serviceUploadTaskPhoto(u, t, reachable) # NoError
       THEN errorHandler(serviceUploadTaskPhoto(u, t, reachable))
  ELSE Resp(200, "Photo uploaded successfully", "")

\* POST /api/tasks/:id/upload-photo as a whole: multer, handler, service
uploadPhoto(u, t, file, reachable) ==
  LET r == uploadPhotoResult(u, t, file, reachable) IN
  /\ nreq < MaxRequests
  /\ u \in Principals
  /\ storage' = IF r.code = 200 THEN storage \cup {filePath(u, t)} ELSE storage
  /\ nreq' = nreq + 1
  /\ last' = Response("uploadTaskPhoto", u, t, NoBody, statusOf(t), r)
  /\ UNCHANGED <<converts, supabase, users, tasks, issues, slots, now, verdict>>

UploadUrlBodies == {"", "p.jpg"}

generateUploadUrlResult(u, fileName, reachable) ==
  IF fileName = "" THEN Resp(400, "Validation failed", "")
  ELSE IF ~isConfigured
       THEN Resp(503, "Storage service not configured. Please contact administrator.", "")
  ELSE IF generateSignedUploadUrl(reachable) # NoError
       THEN errorHandler(generateSignedUploadUrl(reachable))
  ELSE Resp(200, "Upload URL generated successfully", "")

\* role.toLowerCase()
toLowerCase(role) == IF role = "Admin" THEN "admin" ELSE "manager"

\* the object path of a signed upload: the service puts Date.now() in front
\* of the name the handler built from role, user id, Date.now() and fileName
signedFilePath(u, fileName) ==
  <<"verification-photos/", now, toLowerCase(users[u].role), u, now, fileName>>

\* POST /api/tasks/upload-url; the answer carries the path of the slot
generateUploadUrl(u, fileName, reachable) ==
  LET r == generateUploadUrlResult(u, fileName, reachable) IN
  /\ nreq < MaxRequests
  /\ u \in Principals
  /\ nreq' = nreq + 1
  /\ last' = [Response("generateUploadUrl", u, NoId, NoBody, "", r)
               EXCEPT !.data = IF r.code = 200 THEN signedFilePath(u, fileName) ELSE <<>>]
  /\ UNCHANGED <<converts, storage, supabase, users, tasks, issues, slots, now, verdict>>

(* ----------------------- manager administration ------------------------ *)
MaxUsers == 8

\* addresses a provisioning request may carry: one in use, two fresh ones
Emails == {3, Cardinality(UserIds) + 1, Cardinality(UserIds) + 2}

\* manager ids a request under /api/managers/:id may name
ManagerRefs == {1, 3, 5, GhostUser + 2}

emailExists(email) == \E x \in DOMAIN users : users[x].email = email

\* a user schema without the conditional required on adminId
userSchemaLax(doc) == doc.role \in {"Admin", "Manager"}

\* validation of a user document on save(): role is of the enum and adminId
\* is required when the role is Manager
userSchemaValid(doc) ==
  /\ doc.role \in {"Admin", "Manager"}
  /\ doc.role = "Manager" => doc.adminId # NoId

\* new User({...}).save(): the stored collection and the answer
saveUser(doc, created) ==
  IF userSchemaValid(doc)
  THEN [users |-> Append(users, doc), resp |-> created]
  ELSE [users |-> users,
        resp |-> errorHandler([NoError EXCEPT !.name = "ValidationError"])]

\* POST /api/auth/register-manager
registerManagerResult(u, email) ==
  IF ~authorize({"Admin"}, u) THEN [users |-> users, resp |-> Resp(403, "Access denied", "")]
  ELSE IF emailExists(email)
       THEN [users |-> users, resp |-> Resp(409, "User with this email already exists", "")]
  ELSE saveUser([role |-> "Manager", adminId |-> u, isActive |-> TRUE,
                 email |-> email, password |-> "initial"],
                Resp(201, "Manager registered successfully", ""))

\* POST /api/managers: the document is built without an adminId
createManagerResult(u, email) ==
  IF ~authorize({"Admin"}, u) THEN [users |-> users, resp |-> Resp(403, "Access denied", "")]
  ELSE IF emailExists(email)
       THEN [users |-> users, resp |-> Resp(409, "User with this email already exists", "")]
  ELSE saveUser([role |-> "Manager", adminId |-> NoId, isActive |-> TRUE,
                 email |-> email, password |-> "initial"],
                Resp(201, "Manager created successfully", ""))

\* a request of the manager administration is answered
managersAnswer(op, u, result, data) ==
  /\ nreq < MaxRequests
  /\ u \in Principals
  /\ Len(result.users) <= MaxUsers
  /\ users' = result.users
  /\ nreq' = nreq + 1
  /\ last' = [Response(op, u, NoId, NoBody, "", result.resp) EXCEPT !.data = data]
  /\ UNCHANGED <<converts, storage, supabase, tasks, issues, slots, now, verdict>>

registerManager(u, email) ==
  managersAnswer("registerManager", u, registerManagerResult(u, email), <<>>)

createManager(u, email) ==
  managersAnswer("createManager", u, createManagerResult(u, email), <<>>)

\* the filter { _id: req.params.id, role: 'Manager' } of the :id handlers
findManager(m) == m \in DOMAIN users /\ users[m].role = "Manager"

\* findOneAndUpdate({ _id, role: 'Manager' }, update)
updateManagerResult(u, m, field, value, msg) ==
  IF ~authorize({"Admin"}, u) THEN [users |-> users, resp |-> Resp(403, "Access denied", "")]
  ELSE IF ~findManager(m) THEN [users |-> users, resp |-> Resp(404, "Manager not found", "")]
  ELSE [users |-> [users EXCEPT ![m] = [@ EXCEPT ![field] = value]],
        resp |-> Resp(200, msg, "")]

\* PUT /api/managers/:id with isActive in the body
updateManager(u, m, isActive) ==
  managersAnswer("updateManager", u, updateManagerResult(u, m, "isActive", isActive,
                                     "Manager updated successfully"), <<>>)

\* DELETE /api/managers/:id
deleteManager(u, m) ==
  managersAnswer("deleteManager", u, updateManagerResult(u, m, "isActive", FALSE,
                                     "Manager deleted successfully"), <<>>)

\* POST /api/managers/:id/reset-password
resetManagerPassword(u, m) ==
  managersAnswer("resetManagerPassword", u, updateManagerResult(u, m, "password", "reset",
                                     "Manager password reset successfully"), <<>>)

\* the ids in seq that satisfy keep, latest first
RECURSIVE latestFirst(_, _)
latestFirst(n, keep) ==
  IF n = 0 THEN <<>>
  ELSE IF n \in keep THEN <<n>> \o latestFirst(n - 1, keep)
  ELSE latestFirst(n - 1, keep)

\* GET /api/managers: find({ role: 'Manager' }) sorted by createdAt descending
getManagers(u) ==
  managersAnswer("getManagers", u,
    [users |-> users,
     resp |-> IF authorize({"Admin"}, u) THEN Resp(200, "success", "")
              ELSE Resp(403, "Access denied", "")],
    IF authorize({"Admin"}, u)
    THEN latestFirst(Len(users), {m \in DOMAIN users : users[m].role = "Manager"})
    ELSE <<>>)

\* GET /api/managers/:id
getManager(u, m) ==
  managersAnswer("getManager", u,
    [users |-> users,
     resp |-> IF ~authorize({"Admin"}, u) THEN Resp(403, "Access denied", "")
              ELSE IF ~findManager(m) THEN Resp(404, "Manager not found", "")
              ELSE Resp(200, "success", "")],
    IF authorize({"Admin"}, u) /\ findManager(m) THEN <<m>> ELSE <<>>)

(* -------------------------- specification ------------------------------ *)
\* no task yet; one resident issue has been submitted for society 1
InitStore ==
  /\ tasks = <<>>
  /\ issues = <<[status |-> "Submitted", societyId |-> 1, taskId |-> NoId]>>
  /\ slots = [r \in Slots |-> IdleSlot]
  /\ now = 1
  /\ nreq = 0
  /\ last = NoRequest
  /\ verdict = <<>>
  /\ storage = {}
  /\ converts = [c \in Slots |-> NoConvert]

\* the deployment has its storage credentials
Init == users = SeedUsers /\ InitStore /\ supabase = TRUE

\* a store that holds a manager record written without an adminId
InitLegacy == users = LegacyUsers /\ InitStore /\ supabase = TRUE

AdminIds == {1, 2}
IssueIds == {1}
\* the manager that tries the routes reserved to admins
Intruder == CHOOSE u \in UserIds : SeedUsers[u].role = "Manager" /\ SeedUsers[u].isActive

\* the cap on requests is tested before the inputs of a request are drawn
Next ==
  \/ nreq < MaxRequests /\ \E u \in AdminIds, body \in CreateBodies : createTask(u, body)
  \/ nreq < MaxRequests /\ createTask(Intruder, [NoBody EXCEPT !.assetId = 1, !.assignedManagerId = Intruder])
  \/ nreq < MaxRequests /\ \E u \in AdminIds, t \in TaskRefs, body \in UpdateBodies : updateTask(u, t, body)
  \/ nreq < MaxRequests /\ \E t \in TaskRefs : updateTask(Intruder, t, [NoBody EXCEPT !.status = "Completed"])
  \/ nreq < MaxRequests /\ \E u \in AdminIds \cup {Intruder}, t \in TaskRefs : deleteTask(u, t)
  \/ nreq < MaxRequests /\ \E u \in Principals, t \in TaskRefs : startTask(u, t)
  \/ nreq < MaxRequests /\ \E u \in Principals, t \in TaskRefs, body \in SubmitBodies : submitForVerification(u, t, body)
  \/ nreq < MaxRequests /\ \E u \in AdminIds, t \in TaskRefs, body \in VerifyBodies : verifyTask(u, t, body)
  \/ nreq < MaxRequests /\ \E t \in TaskRefs : verifyTask(Intruder, t, [NoBody EXCEPT !.action = "approve"])
  \/ \E r \in Slots : save(r)
  \/ nreq < MaxRequests /\ \E u \in AdminIds \cup {Intruder}, i \in IssueIds, s \in {"Approved", "Rejected"} : reviewIssue(u, i, s)
  \/ nreq < MaxRequests /\ \E u \in AdminIds \cup {Intruder}, i \in IssueIds, body \in ConvertBodies : convertToTask(u, i, body)
  \/ Tick

Spec == Init /\ [][Next]_vars

SpecLegacy == InitLegacy /\ [][Next]_vars

\* a deployment with or without storage credentials
InitEvidence == users = SeedUsers /\ InitStore /\ supabase \in BOOLEAN

NextEvidence ==
  \/ \E u \in AdminIds, body \in CreateBodies : createTask(u, body)
  \/ \E u \in AdminIds, t \in TaskRefs : deleteTask(u, t)
  \/ \E u \in Principals, t \in TaskRefs, file \in Files \cup {NoFile}, reachable \in BOOLEAN :
        uploadPhoto(u, t, file, reachable)
  \/ \E u \in Principals, fileName \in UploadUrlBodies, reachable \in BOOLEAN :
        generateUploadUrl(u, fileName, reachable)
  \/ Tick

SpecEvidence == InitEvidence /\ [][NextEvidence]_vars

\* the tasks admin 1 has created for manager 3, with the priority and the
\* scheduled date of their request bodies
MaxListed == 3
ScheduledDates == {1, 2}

ListedTasks ==
  {[NewTask(1, 1, 3, NoId) EXCEPT !.priority = p, !.scheduledDate = d] :
     p \in Priorities, d \in ScheduledDates}

InitList ==
  /\ users = SeedUsers
  /\ \E n \in 1 .. MaxListed : tasks \in [1 .. n -> ListedTasks]
  /\ verdict = [t \in DOMAIN tasks |-> "none"]
  /\ issues = <<[status |-> "Submitted", societyId |-> 1, taskId |-> NoId]>>
  /\ slots = [r \in Slots |-> IdleSlot]
  /\ now = 1
  /\ nreq = 0
  /\ last = NoRequest
  /\ storage = {}
  /\ converts = [c \in Slots |-> NoConvert]
  /\ supabase = TRUE

NextList == \E u \in {1, 3} : listTasks(u)

SpecList == InitList /\ [][NextList]_vars

NextManagers ==
  \/ \E u \in AdminIds \cup {Intruder}, email \in Emails : registerManager(u, email)
  \/ \E u \in AdminIds \cup {Intruder}, email \in Emails : createManager(u, email)
  \/ \E u \in AdminIds \cup {Intruder}, m \in ManagerRefs, isActive \in BOOLEAN :
        updateManager(u, m, isActive)
  \/ \E u \in AdminIds \cup {Intruder}, m \in ManagerRefs : deleteManager(u, m)
  \/ \E u \in AdminIds \cup {Intruder}, m \in ManagerRefs : resetManagerPassword(u, m)
  \/ \E u \in AdminIds \cup {Intruder} : getManagers(u)
  \/ \E u \in AdminIds \cup {Intruder}, m \in ManagerRefs : getManager(u, m)

SpecManagers == Init /\ [][NextManagers]_vars

\* review and conversion of issues, with the conversion's awaits as steps
NextIssues ==
  \/ \E u \in AdminIds, i \in IssueIds, s \in {"Approved", "Rejected"} : reviewIssue(u, i, s)
  \/ \E u \in AdminIds \cup {Intruder}, i \in IssueIds, body \in ConvertBodies :
        convertFind(u, i, body)
  \/ \E c \in Slots : convertSaveTask(c)
  \/ \E c \in Slots : convertSaveIssue(c)

SpecIssues == Init /\ [][NextIssues]_vars

(* ----------------------------- properties ------------------------------ *)
\* a request is answered in this step: at once by its handler, or by the
\* save() that ends it
Answered ==
  \/ nreq' # nreq /\ slots' = slots
  \/ nreq' = nreq /\ slots' # slots

\* the principal's tenant scope: an admin's own id, a manager's employer
Scope(u) == IF users[u].role = "Admin" THEN u ELSE users[u].adminId

\* the principal may trigger the lifecycle operation on the stored task
Entitled(op, u, t) ==
  /\ t \in TaskIds
  /\ tasks[t].isActive
  /\ Scope(u) = tasks[t].adminId
  /\ users[u].role = "Manager" => tasks[t].assignedManagerId = u
  /\ op = "verifyTask" => users[u].role = "Admin"

LifecycleEdges ==
  {<<"Pending", "InProgress">>, <<"InProgress", "PendingVerification">>,
   <<"PendingVerification", "Completed">>, <<"PendingVerification", "RequiresAttention">>}

PreState(op) ==
  IF op = "startTask" THEN "Pending"
  ELSE IF op = "submitForVerification" THEN "InProgress"
  ELSE "PendingVerification"

Triggers == {"startTask", "submitForVerification", "verifyTask"}

\* C1: every change of a task's stored status is one of the four lifecycle
\* edges, and a Start, SubmitForVerification or Verify that an entitled
\* principal requests on a task whose status is not the trigger's pre-state
\* is answered 400 with the current status in the message and leaves the
\* status as it is.
C1_StatusFollowsEdges ==
  [][/\ \A t \in TaskIds :
          tasks'[t].status # tasks[t].status =>
            <<tasks[t].status, tasks'[t].status>> \in LifecycleEdges
     /\ (/\ Answered
         /\ last'.op \in Triggers
         /\ last'.msg # "Validation failed"
         /\ Entitled(last'.op, last'.user, last'.task)
         /\ last'.saw # PreState(last'.op))
        => /\ last'.code = 400
           /\ last'.cites = last'.saw
           /\ tasks'[last'.task].status = tasks[last'.task].status]_vars

\* two requests of the same operation on the same task, answered one after
\* the other with no other answer in between, both by entitled principals
AnsweredPair(op) ==
  /\ Answered
  /\ last.op = op
  /\ last'.op = op
  /\ last'.task = last.task
  /\ last.msg # "Validation failed"
  /\ last'.msg # "Validation failed"
  /\ Entitled(op, last.user, last.task)
  /\ Entitled(op, last'.user, last.task)

\* C2: of two Start requests on the same Pending task, whatever the order of
\* their reads, checks and writes, exactly one is answered 200 and the other
\* 400 citing InProgress; the task ends InProgress with a start time, and
\* the refused request writes nothing.
C2_OneStartSucceeds ==
  [][(AnsweredPair("startTask") /\ last.saw = "Pending")
     => /\ {last.code, last'.code} = {200, 400}
        /\ tasks'[last.task].status = "InProgress"
        /\ tasks'[last.task].actualStartTime # 0
        /\ last'.code = 400 => (last'.cites = "InProgress" /\ tasks' = tasks)]_vars

\* status that a verification action leaves
Outcome(action) == IF action = "approve" THEN "Completed" ELSE "RequiresAttention"

\* C3: of a Verify(approve) and a Verify(reject) on the same
\* PendingVerification task, a write takes effect only while the stored
\* status is still PendingVerification: exactly one is answered 200, the
\* other 400, and the task carries the outcome of the successful one only.
C3_OneVerifySucceeds ==
  [][(/\ AnsweredPair("verifyTask")
      /\ last.action # last'.action
      /\ last.saw = "PendingVerification")
     => /\ {last.code, last'.code} = {200, 400}
        /\ last'.code = 400 => tasks' = tasks
        /\ tasks'[last.task].status =
             Outcome(IF last.code = 200 THEN last.action ELSE last'.action)]_vars

\* C4: in every state and for every task, rejectionReason is non-empty
\* exactly when the last successful verification of the task was a rejection.
C4_RejectionReasonIffRejected ==
  \A t \in TaskIds : (tasks[t].rejectionReason # "") <=> (verdict[t] = "reject")

\* C5: in every state, the manager assigned to a task is employed by the
\* admin that owns the task.
C5_ManagerEmployedByOwner ==
  \A t \in TaskIds :
     /\ tasks[t].assignedManagerId \in UserIds
     /\ users[tasks[t].assignedManagerId].adminId = tasks[t].adminId

\* the asset is an active asset of the admin, written from the Asset schema
OwnAsset(u, a) == a \in AssetIds /\ Assets[a].adminId = u /\ Assets[a].isActive

\* the user is an active manager employed by the admin
OwnManager(u, m) ==
  m \in UserIds /\ users[m].role = "Manager" /\ users[m].adminId = u /\ users[m].isActive

InvalidReference ==
  {"Invalid asset ID or asset not found", "Invalid manager ID or manager not found"}

\* C6: a creation request by an admin whose asset or manager belongs to
\* another admin, does not exist or is inactive is answered 400 with an
\* invalid-reference message, and the stored tasks stay as they are.
C6_CrossTenantCreationRefused ==
  [][(/\ Answered
      /\ last'.op = "createTask"
      /\ last'.user \in AdminIds
      /\ ~(OwnAsset(last'.user, last'.assetId) /\ OwnManager(last'.user, last'.assignedManagerId)))
     => /\ last'.code = 400
        /\ last'.msg \in InvalidReference
        /\ tasks' = tasks]_vars

\* a creation naming another admin's active asset has been refused
C6_Witness ==
  /\ last.op = "createTask"
  /\ last.user \in AdminIds
  /\ last.assetId \in AssetIds
  /\ Assets[last.assetId].isActive
  /\ Assets[last.assetId].adminId # last.user
  /\ last.code = 400
  /\ last.msg = "Invalid asset ID or asset not found"

\* the operations that may write a stored task
TaskWrites == {"updateTask", "deleteTask", "startTask", "submitForVerification", "verifyTask"}

\* C7: a principal whose tenant scope differs from the task's adminId is
\* never given the task by list or get-by-id, and no edit, delete, Start,
\* SubmitForVerification or Verify that it requests changes a field of the
\* task.
C7_ForeignScopeNoAccess ==
  [][/\ \A u \in Principals, t \in TaskIds :
          Scope(u) # tasks[t].adminId =>
            (t \notin getTasks(u) /\ getTaskById(u, t).code # 200)
     /\ (/\ Answered
         /\ last'.op \in TaskWrites
         /\ last'.task \in TaskIds
         /\ Scope(last'.user) # tasks[last'.task].adminId)
        => tasks'[last'.task] = tasks[last'.task]]_vars

C9_NotAssignedIsNotFound ==
  \A u \in Principals, t \in TaskIds :
     (users[u].role = "Manager" /\ tasks[t].assignedManagerId # u) =>
       LET none == Len(tasks) + 1 IN
       /\ getTaskById(u, t).code = 404
       /\ getTaskById(u, t) = getTaskById(u, none)
       /\ startTaskResult(u, t).code = 404
       /\ startTaskResult(u, t) = startTaskResult(u, none)
       /\ \A body \in SubmitBodies :
             /\ submitForVerificationResult(u, t, body).code = 404
             /\ submitForVerificationResult(u, t, body) = submitForVerificationResult(u, none, body)
       /\ uploadTaskPhoto(u, t).code = 404
       /\ uploadTaskPhoto(u, t) = uploadTaskPhoto(u, none)
       /\ t \notin getTasks(u)

\* a manager of the owning admin asked to submit an active task that is
\* assigned to a colleague, and was answered 404
C9_Witness ==
  /\ last.op = "submitForVerification"
  /\ last.task \in TaskIds
  /\ users[last.user].role = "Manager"
  /\ tasks[last.task].isActive
  /\ tasks[last.task].adminId = users[last.user].adminId
  /\ tasks[last.task].assignedManagerId # last.user
  /\ last.code = 404

\* C10: a Start by the assigned manager, employed by the owning admin, on an
\* active Pending task is answered 200 and leaves the task InProgress with
\* its start time set; a Start on the task once it is InProgress is answered
\* 400 citing InProgress and changes nothing.
C10_AssignedManagerStarts ==
  [][(/\ Answered
      /\ last'.op = "startTask"
      /\ users[last'.user].role = "Manager"
      /\ Entitled("startTask", last'.user, last'.task))
     => /\ last'.saw = "Pending" =>
             /\ last'.code = 200
             /\ tasks'[last'.task].status = "InProgress"
             /\ tasks'[last'.task].actualStartTime # 0
        /\ last'.saw = "InProgress" =>
             /\ last'.code = 400
             /\ last'.cites = "InProgress"
             /\ tasks' = tasks]_vars

\* the pieces of the model's URLs that begin the path or the query
PathPieces == {"/storage/v1/object/public/", "/p.jpg", "/?x="}

\* the URL's host is the evidence store's and its path is the public-object
\* path: the piece before the first path piece is the store's domain
InTrustedDomain(url) ==
  \E k \in 3 .. Len(url) :
     /\ url[k] = "/storage/v1/object/public/"
     /\ url[k - 1] = "supabase.co"
     /\ \A j \in 2 .. (k - 1) : url[j] \notin PathPieces

\* C11: a SubmitForVerification by the assigned manager on an InProgress
\* task is accepted exactly when the photo URL lies in the evidence store's
\* domain; a refused one is answered 400 and leaves the task as it is, and
\* the save of an accepted one leaves the task PendingVerification with the
\* URL, the notes and an end time.
C11_SubmitIffTrustedUrl ==
  [][/\ nreq' # nreq =>
          \A u \in Principals, t \in TaskIds, body \in SubmitBodies :
             (/\ users[u].role = "Manager"
              /\ Entitled("submitForVerification", u, t)
              /\ tasks[t].status = "InProgress"
              /\ submitForVerification(u, t, body))
             => IF InTrustedDomain(body.photoUrl)
                THEN slots' # slots /\ last' = last
                ELSE last'.code = 400 /\ tasks' = tasks /\ slots' = slots
     /\ (Answered /\ last'.op = "submitForVerification" /\ last'.code = 200)
        => /\ tasks'[last'.task].status = "PendingVerification"
           /\ InTrustedDomain(tasks'[last'.task].verificationPhotoUrl)
           /\ tasks'[last'.task].actualEndTime # 0]_vars

\* a Verify(reject) of the owning admin on a PendingVerification task is
\* handled in this step with the given body
RejectHandled(u, t, body) ==
  /\ body.action = "reject"
  /\ Entitled("verifyTask", u, t)
  /\ tasks[t].status = "PendingVerification"
  /\ verifyTask(u, t, body)

\* the paths the reject branch assigns
RejectPaths == {"status", "rejectionReason", "verificationNotes", "verifiedBy", "verifiedAt"}

\* the save of slot r, a Verify(reject), happens in this step, and no other
\* request has meanwhile overwritten a path the handler left unmodified
RejectSaved(r) ==
  /\ slots[r].pc = "loaded"
  /\ slots'[r].pc = "idle"
  /\ slots[r].op = "verifyTask"
  /\ slots[r].action = "reject"
  /\ \A f \in RejectPaths \ slots[r].upd.dirty : tasks[slots[r].task][f] = slots[r].upd[f]

\* what the save of a Verify(reject) leaves on the task
RejectStored(r) ==
  LET t == slots[r].task IN
  /\ tasks'[t].status = "RequiresAttention"
  /\ tasks'[t].rejectionReason = slots[r].upd.rejectionReason
  /\ tasks'[t].rejectionReason # ""
  /\ tasks'[t].verificationNotes = slots[r].upd.verificationNotes
  /\ tasks'[t].verifiedBy = slots[r].user
  /\ tasks'[t].verifiedAt = slots[r].upd.verifiedAt
  /\ tasks'[t].verifiedAt # 0

C13_CompletedHasVerifier ==
  \A t \in TaskIds :
     tasks[t].status = "Completed" =>
       /\ tasks[t].verifiedBy # NoId
       /\ tasks[t].verifiedAt # 0
       /\ tasks[t].verifiedBy = tasks[t].adminId

\* C14: a PATCH /:id by the owning admin, whatever the body and the status,
\* leaves the task's status, verification photo, verifier, verification
\* time and rejection reason as they are.
C14_EditKeepsLifecycleFields ==
  [][(/\ Answered
      /\ last'.op = "updateTask"
      /\ last'.task \in TaskIds
      /\ last'.user = tasks[last'.task].adminId)
     => /\ tasks'[last'.task].status = tasks[last'.task].status
        /\ tasks'[last'.task].verificationPhotoUrl = tasks[last'.task].verificationPhotoUrl
        /\ tasks'[last'.task].verifiedBy = tasks[last'.task].verifiedBy
        /\ tasks'[last'.task].verifiedAt = tasks[last'.task].verifiedAt
        /\ tasks'[last'.task].rejectionReason = tasks[last'.task].rejectionReason]_vars

\* C15: a task is Pending when it is first stored, by creation or by
\* conversion of an issue, and has no start time, end time, photo,
\* verifier or rejection reason.
C15_CreatedPending ==
  [][Len(tasks') > Len(tasks)
     => LET new == tasks'[Len(tasks')] IN
        /\ new.status = "Pending"
        /\ new.actualStartTime = 0
        /\ new.actualEndTime = 0
        /\ new.verificationPhotoUrl = NoUrl
        /\ new.verifiedBy = NoId
        /\ new.verifiedAt = 0
        /\ new.rejectionReason = ""]_vars

\* the statuses that a request of manager u on task t would write now
ManagerMoves(u, t) ==
  {st \in {"InProgress"} : startTaskResult(u, t).code = 200}
  \cup {st \in {"PendingVerification"} :
          \E body \in SubmitBodies : submitForVerificationResult(u, t, body).code = 200}

\* C16: whenever an active task is RequiresAttention, some request of its
\* assigned manager moves it back to InProgress.
C16_RejectedCanBeReworked ==
  \A t \in TaskIds :
     (/\ tasks[t].isActive
      /\ tasks[t].status = "RequiresAttention"
      /\ tasks[t].assignedManagerId \in Principals
      /\ users[tasks[t].assignedManagerId].adminId = tasks[t].adminId)
     => "InProgress" \in ManagerMoves(tasks[t].assignedManagerId, t)

TenMiB == 10 * 1024 * 1024

DeclaredImage(file) ==
  \/ file.mimetype # <<>> /\ Head(file.mimetype) = "image/"
  \/ /\ Len(file.originalname) >= 2
     /\ file.originalname[Len(file.originalname) - 1] = "."
     /\ lower(file.originalname[Len(file.originalname)]) \in ImageExtensions

\* an error the caller can correct, as opposed to the generic failure 500
ClientCorrectable(code) == code \in 400 .. 499

\* C19: POST /:id/upload-photo stores the file when it is declared an image
\* of at most 10 MiB (and the task is the caller's and the store works);
\* a non-image is refused with a client error, a larger file with 413, and
\* neither leaves anything in the store.
C19_UploadPayloadChecked ==
  [][nreq' # nreq =>
       \A u \in Principals, t \in TaskRefs, file \in Files, reachable \in BOOLEAN :
          uploadPhoto(u, t, file, reachable) =>
            /\ ~DeclaredImage(file) =>
                 (ClientCorrectable(last'.code) /\ storage' = storage)
            /\ (DeclaredImage(file) /\ file.size > TenMiB) =>
                 (last'.code = 413 /\ storage' = storage)
            /\ (/\ DeclaredImage(file)
                /\ file.size <= TenMiB
                /\ uploadTaskPhoto(u, t).code = 200
                /\ supabase
                /\ reachable
                /\ filePath(u, t) \notin storage) =>
                 (last'.code = 200 /\ storage' = storage \cup {filePath(u, t)})]_vars

\* C20: when the storage client is not configured or the store cannot be
\* reached, POST /upload-url and POST /:id/upload-photo (for a file and a
\* task that pass every earlier check) are answered 503, and the tasks are
\* as before.
C20_StorageUnavailable ==
  [][nreq' # nreq =>
       \A u \in Principals, reachable \in BOOLEAN :
          (~supabase \/ ~reachable) =>
            /\ generateUploadUrl(u, "p.jpg", reachable) =>
                 (last'.code = 503 /\ tasks' = tasks)
            /\ \A t \in TaskIds, file \in Files :
                 (/\ uploadPhoto(u, t, file, reachable)
                  /\ DeclaredImage(file)
                  /\ file.size <= TenMiB
                  /\ uploadTaskPhoto(u, t).code = 200) =>
                   (last'.code = 503 /\ tasks' = tasks /\ storage' = storage)]_vars

\* the ordinal scale of priorities
Ordinal(priority) ==
  IF priority = "Low" THEN 1 ELSE IF priority = "Medium" THEN 2
  ELSE IF priority = "High" THEN 3 ELSE 4

\* C21: every task list is in ascending order of scheduled date and, for
\* equal dates, in descending order of priority on the scale
\* Low < Medium < High < Critical.
C21_ListByDateThenUrgency ==
  last.op = "getTasks" =>
    \A i, j \in DOMAIN last.data :
       i < j =>
         LET a == tasks[last.data[i]]
             b == tasks[last.data[j]]
         IN \/ a.scheduledDate < b.scheduledDate
            \/ /\ a.scheduledDate = b.scheduledDate
               /\ Ordinal(a.priority) >= Ordinal(b.priority)

\* every manager has one employer, an admin on record; an admin has none
EmployerLinks ==
  \A x \in DOMAIN users :
     IF users[x].role = "Manager"
     THEN users[x].adminId \in DOMAIN users /\ users[users[x].adminId].role = "Admin"
     ELSE users[x].adminId = NoId

Provisionings == {"registerManager", "createManager"}

\* C22: in every state each Manager is linked to exactly one existing Admin
\* and no Admin is linked to anyone; a provisioning request stores one new
\* Manager linked to the caller and answers 201, or stores nothing.
C22_ManagersHaveOneEmployer ==
  /\ []EmployerLinks
  /\ [][last'.op \in Provisionings /\ nreq' # nreq =>
          IF last'.code = 201
          THEN /\ Len(users') = Len(users) + 1
               /\ \A x \in DOMAIN users : users'[x] = users[x]
               /\ users'[Len(users')].role = "Manager"
               /\ users'[Len(users')].adminId = last'.user
          ELSE users' = users]_vars

\* both provisioning routes have been used: one has stored a manager, the
\* other has just been refused
C22_Witness ==
  /\ Len(users) > Cardinality(UserIds)
  /\ last.op = "createManager"
  /\ last.code = 400

\* C30: under /api/managers an admin is shown and changes only managers it
\* employs.
C30_ManagersOfCallerOnly ==
  [][nreq' # nreq =>
       /\ \A m \in DOMAIN users :
             users'[m] # users[m] => users[m].adminId = last'.user
       /\ last'.op \in {"getManagers", "getManager"} =>
             \A i \in DOMAIN last'.data : users[last'.data[i]].adminId = last'.user]_vars

\* C23: the save of a successful Start keeps an actual start time that the
\* task carries already, and the save of a successful Submit keeps an
\* actual end time that it carries already.
C23_TimesSetOnlyIfUnset ==
  [][(nreq' = nreq /\ slots' # slots /\ last'.code = 200) =>
       /\ (last'.op = "startTask" /\ tasks[last'.task].actualStartTime # 0) =>
             tasks'[last'.task].actualStartTime = tasks[last'.task].actualStartTime
       /\ (last'.op = "submitForVerification" /\ tasks[last'.task].actualEndTime # 0) =>
             tasks'[last'.task].actualEndTime = tasks[last'.task].actualEndTime]_vars

\* C24: two signed-upload slots never have the same storage path, whoever
\* asked for them and whatever file name was given.
C24_SlotPathsDistinct ==
  [][(/\ nreq' # nreq
      /\ last.op = "generateUploadUrl" /\ last.code = 200
      /\ last'.op = "generateUploadUrl" /\ last'.code = 200)
     => last'.data # last.data]_vars

\* C25: once a task is deleted (isActive FALSE) no step changes any of its
\* fields, no request on it is accepted, and a request on it that is
\* answered at once is not answered with success.
C25_DeletedTaskIsFrozen ==
  [][\A t \in TaskIds :
        ~tasks[t].isActive =>
          /\ tasks'[t] = tasks[t]
          /\ \A r \in Slots :
                (slots[r].pc = "idle" /\ slots'[r].pc = "loaded") => slots'[r].task # t
          /\ (nreq' # nreq /\ slots' = slots /\ last'.task = t) => last'.code # 200]_vars

\* C26: no step changes the adminId of a stored task, and a task stored by
\* POST /api/tasks has the caller as adminId.
C26_OwnerNeverChanges ==
  [][/\ \A t \in TaskIds : t \in DOMAIN tasks' /\ tasks'[t].adminId = tasks[t].adminId
     /\ (Len(tasks') > Len(tasks) /\ last'.op = "createTask") =>
           tasks'[Len(tasks')].adminId = last'.user]_vars

\* C27: in every state a task that is InProgress or later has an actual
\* start time; a task that is PendingVerification, Completed or
\* RequiresAttention also has an actual end time not before its start time,
\* and a verification photo.
C27_TimesFollowStatus ==
  \A t \in TaskIds :
     /\ tasks[t].status \in Statuses \ {"Pending"} => tasks[t].actualStartTime # 0
     /\ tasks[t].status \in {"PendingVerification", "Completed", "RequiresAttention"} =>
          /\ tasks[t].actualEndTime # 0
          /\ tasks[t].actualEndTime >= tasks[t].actualStartTime
          /\ tasks[t].verificationPhotoUrl # NoUrl

\* C28: the transition of a Start or a Submit is written only while the
\* caller is still the task's assigned manager.
C28_UnassignedNeverAdvances ==
  [][(/\ nreq' = nreq
      /\ slots' # slots
      /\ last'.op \in {"startTask", "submitForVerification"}
      /\ tasks' # tasks)
     => tasks[last'.task].assignedManagerId = last'.user]_vars

TasksOfIssue(i) == {t \in TaskIds : tasks[t].issueId = i}

\* no conversion of issue i is between its read and its last save
Settled(i) == \A c \in Slots : converts[c].pc = "idle" \/ converts[c].issue # i

\* C29: in every state an issue has given rise to at most one task, and
\* once its conversions are done a task that refers to issue i is the task
\* that issue i, then ConvertedToTask, refers to; a conversion is taken up
\* only for an Approved issue.
C29_IssueConvertedOnce ==
  /\ [](\A i \in DOMAIN issues :
           /\ Cardinality(TasksOfIssue(i)) <= 1
           /\ Settled(i) =>
                \A t \in TasksOfIssue(i) :
                   issues[i].status = "ConvertedToTask" /\ issues[i].taskId = t)
  /\ [][\A c \in Slots :
           (converts[c].pc = "idle" /\ converts'[c].pc = "checked") =>
              issues[converts'[c].issue].status = "Approved"]_vars

====
